---- MODULE Spec2Model ----
(***************************************************************************)
(* Verification model of the Kotlin structure analyser.                    *)
(*                                                                         *)
(*   Spec         the two-pass codebase aggregator                         *)
(*                (workflows/v4/tree_hugger.py, analyze_kotlin_codebase)   *)
(*   SpecResolve  the fully-qualified-name resolver                        *)
(*                (kotlin_analyzer_ast.py, _resolve_fully_qualified)       *)
(*   SpecUses     the extraction of one declaration's uses                 *)
(*                (kotlin_analyzer_ast.py, _start and the steps it calls)  *)
(*   SpecFile     the analysis of one file over its syntax tree            *)
(*                (kotlin_analyzer_ast.py, analyze_kotlin_file)            *)
(*   SpecCalls    repeated calls of analyze_kotlin_file on one analyser    *)
(*   SpecParams   the parameter loop of _extract_functions_wq              *)
(*   SpecSingle   the single-record analyser                               *)
(*                (code_documenter/workers/tree_hugger2.0.py)              *)
(*   SpecMeta     ClassMeta.update_used_in                                 *)
(*                (agents/code_metadata_agent.py)                          *)
(*                                                                         *)
(* Strings are TLA+ strings; Len, SubSeq and \o act on them character by   *)
(* character, as str.endswith, slicing and + do in the source.             *)
(***************************************************************************)
EXTENDS Integers, Sequences, FiniteSets, TLC

VARIABLES
    walk,               \* the .kt files in the order os.walk yields them
    next,               \* position of the pass-1 loop in walk
    analysis_results,   \* list of declaration dicts, in insertion order
    class_map,          \* dict: class name -> declaration (index into analysis_results)
    usage_map,          \* defaultdict(list): dependency name -> list of user names
    pc,                 \* position of analyze_kotlin_codebase
    i,                  \* position of the pass-2 / pass-3 loop in analysis_results
    kotlin_analysis,    \* the KotlinAnalysisData record being filled
    user_types,         \* identifiers captured by the user-type query, document order
    type_name,          \* argument of _resolve_fully_qualified
    fq_name,            \* its result
    xpc,                \* position of the analyser
    source_bytes,       \* argument of analyze_kotlin_file, with the tree it parses to
    bad_queries,        \* the query texts the installed grammar rejects
    analysis_data,      \* the list _start fills
    index,              \* position of the loop of _start in the declaration matches
    err,                \* the exception on its way to, or caught by, the except branch
    returned,           \* what analyze_kotlin_file handed to its caller
    cursor,             \* the last direct call of _create_query_cursor
    fpc,                \* position of analyze_kotlin_file
    earlier,            \* the calls of analyze_kotlin_file that returned before this one
    siblings,           \* param_node.children of a function match
    idx,                \* position of the loop over som_matches
    function_params,    \* function_data.parameters
    ppc,                \* position of the parameter loop
    used_in             \* ClassMeta.used_in

aggVars == <<walk, next, analysis_results, class_map, usage_map, pc, i>>

extVars == <<kotlin_analysis, user_types, type_name, fq_name, xpc>>

fileVars == <<source_bytes, bad_queries, analysis_data, index, err, returned,
              cursor, fpc, earlier>>

auxVars == <<siblings, idx, function_params, ppc, used_in>>

vars == <<walk, next, analysis_results, class_map, usage_map, pc, i,
          kotlin_analysis, user_types, type_name, fq_name, xpc,
          source_bytes, bad_queries, analysis_data, index, err, returned,
          cursor, fpc, earlier, siblings, idx, function_params, ppc, used_in>>

----------------------------------------------------------------------------
(* Bounds *)

MaxFiles == 3

MaxImports == 2

MaxRefs == 2

MaxDeclarations == 2

MaxCalls == 3

MaxParams == 2

----------------------------------------------------------------------------
(* Generic helpers *)

Range(s) == {s[k] : k \in 1..Len(s)}

SeqsUpTo(S, n) == UNION {[1..k -> S] : k \in 0..n}

\* dict[key] = value
DictPut(d, key, value) ==
    [k \in (DOMAIN d) \cup {key} |-> IF k = key THEN value ELSE d[k]]

\* dict.get(key, default)
DictGet(d, key, default) == IF key \in DOMAIN d THEN d[key] ELSE default

EmptyDict == [k \in {} |-> 0]

----------------------------------------------------------------------------
(* Inputs: what analyze_kotlin_file returns for a file *)

ClassNames == {"A", "B"}

PackageNames == {"p", "q"}

DependencyLists == {<< >>, <<"A">>, <<"B", "X">>}

\* the dict built for one class-like node (the keys the aggregator reads or
\* writes, and the package)
DeclarationInfo(path, name, package, dependencies) ==
    [path |-> path, name |-> name, package |-> package,
     dependencies |-> dependencies, usage |-> << >>]

\* a declaration as found in a file, before the path is known
FoundDeclarations ==
    {[name |-> n, package |-> p, dependencies |-> d] :
        n \in ClassNames, p \in PackageNames, d \in DependencyLists}
    \cup {[name |-> "", package |-> "p", dependencies |-> <<"A">>]}

\* a file: either reading/analysing it raises, or it yields declarations
FileOutcomes ==
    {[raises |-> FALSE, found |-> <<f>>] : f \in FoundDeclarations}
    \cup {[raises |-> FALSE, found |-> << >>]}
    \cup {[raises |-> FALSE,
           found |-> <<[name |-> "B", package |-> "p", dependencies |-> << >>],
                       [name |-> "A", package |-> "p", dependencies |-> <<"B", "X">>]>>]}
    \cup {[raises |-> TRUE, found |-> << >>]}

----------------------------------------------------------------------------
(* Pass 1: collect *)

\* the inner loop over declarations_in_file
RECURSIVE InsertDeclarations(_, _, _, _)
InsertDeclarations(results, cmap, path, found) ==
    IF found = << >> THEN [results |-> results, cmap |-> cmap]
    ELSE LET f == Head(found)
             declaration == DeclarationInfo(path, f.name, f.package, f.dependencies)
         IN IF f.name # ""
            THEN InsertDeclarations(Append(results, declaration),
                                    DictPut(cmap, f.name, Len(results) + 1),
                                    path, Tail(found))
            ELSE InsertDeclarations(results, cmap, path, Tail(found))

\* the same iteration with an except branch that drops what was collected
CollectFileAbort(results, cmap, path, file) ==
    IF file.raises THEN [results |-> << >>, cmap |-> EmptyDict]
    ELSE InsertDeclarations(results, cmap, path, file.found)

\* one iteration of the file loop, including the except branch
CollectFile(results, cmap, path, file) ==
    IF file.raises THEN [results |-> results, cmap |-> cmap]
    ELSE InsertDeclarations(results, cmap, path, file.found)

\* the same loop without the test that the dependency is a key of class_map
RECURSIVE AddUsagesUnchecked(_, _, _, _)
AddUsagesUnchecked(umap, cmap, dependencies, user) ==
    IF dependencies = << >> THEN umap
    ELSE LET dep_name == Head(dependencies)
         IN AddUsagesUnchecked(DictPut(umap, dep_name,
                                       Append(DictGet(umap, dep_name, << >>), user)),
                               cmap, Tail(dependencies), user)

\* the inner loop over the dependencies of one class_info
RECURSIVE AddUsages(_, _, _, _)
AddUsages(umap, cmap, dependencies, user) ==
    IF dependencies = << >> THEN umap
    ELSE LET dep_name == Head(dependencies)
         IN IF dep_name \in DOMAIN cmap
            THEN AddUsages(DictPut(umap, dep_name,
                                   Append(DictGet(umap, dep_name, << >>), user)),
                           cmap, Tail(dependencies), user)
            ELSE AddUsages(umap, cmap, Tail(dependencies), user)

\* os.walk starts: the first iteration of the file loop is entered
BeginWalk ==
    /\ pc = "start"
    /\ pc' = "pass1"
    /\ UNCHANGED <<walk, next, analysis_results, class_map, usage_map, i, extVars, fileVars, auxVars>>

\* the file loop updating the usage map as each file is collected
AnalyzeFileEager ==
    /\ pc = "pass1"
    /\ next <= Len(walk)
    /\ LET r == CollectFile(analysis_results, class_map,
                            walk[next].path, walk[next].outcome)
           last == Len(r.results)
       IN /\ analysis_results' = r.results
          /\ class_map' = r.cmap
          /\ usage_map' = IF last > Len(analysis_results)
                          THEN AddUsages(usage_map, r.cmap,
                                         r.results[last].dependencies,
                                         r.results[last].name)
                          ELSE usage_map
    /\ next' = next + 1
    /\ UNCHANGED <<walk, pc, i, extVars, fileVars, auxVars>>

AnalyzeFile ==
    /\ pc = "pass1"
    /\ next <= Len(walk)
    /\ LET r == CollectFile(analysis_results, class_map,
                            walk[next].path, walk[next].outcome)
       IN /\ analysis_results' = r.results
          /\ class_map' = r.cmap
    /\ next' = next + 1
    /\ UNCHANGED <<walk, usage_map, pc, i, extVars, fileVars, auxVars>>

EndPass1 ==
    /\ pc = "pass1"
    /\ next > Len(walk)
    /\ pc' = "pass2"
    /\ i' = 1
    /\ UNCHANGED <<walk, next, analysis_results, class_map, usage_map, extVars, fileVars, auxVars>>

----------------------------------------------------------------------------
(* Pass 2: cross-reference usage map *)

BuildUsage ==
    /\ pc = "pass2"
    /\ i <= Len(analysis_results)
    /\ usage_map' = AddUsages(usage_map, class_map,
                              analysis_results[i].dependencies,
                              analysis_results[i].name)
    /\ i' = i + 1
    /\ UNCHANGED <<walk, next, analysis_results, class_map, pc, extVars, fileVars, auxVars>>

EndPass2 ==
    /\ pc = "pass2"
    /\ i > Len(analysis_results)
    /\ pc' = "pass3"
    /\ i' = 1
    /\ UNCHANGED <<walk, next, analysis_results, class_map, usage_map, extVars, fileVars, auxVars>>

----------------------------------------------------------------------------
(* Pass 3: populate usage in the report *)

SetUsageAndDependencies(class_info, umap) ==
    IF class_info.name # ""
    THEN [class_info EXCEPT !.usage = DictGet(umap, class_info.name, << >>),
                            !.dependencies = << >>]
    ELSE class_info

SetUsage(class_info, umap) ==
    IF class_info.name # ""
    THEN [class_info EXCEPT !.usage = DictGet(umap, class_info.name, << >>)]
    ELSE class_info

PopulateUsage ==
    /\ pc = "pass3"
    /\ i <= Len(analysis_results)
    /\ analysis_results' =
          [analysis_results EXCEPT ![i] = SetUsage(analysis_results[i], usage_map)]
    /\ i' = i + 1
    /\ UNCHANGED <<walk, next, class_map, usage_map, pc, extVars, fileVars, auxVars>>

Return ==
    /\ pc = "pass3"
    /\ i > Len(analysis_results)
    /\ pc' = "done"
    /\ UNCHANGED <<walk, next, analysis_results, class_map, usage_map, i, extVars, fileVars, auxVars>>

----------------------------------------------------------------------------
(* The analyser: records *)

KOTLIN_BUILTIN_TYPES ==
    {"Int", "Long", "Short", "Byte", "Float", "Double", "Char", "Boolean", "Unit",
     "String", "Any", "Nothing", "Array", "List", "MutableList", "Set", "Map",
     "MutableSet", "MutableMap"}

\* Python's None, where a field is Optional[str]
None == "<None>"

VariableData(name, type) ==
    [name |-> name, type |-> type, annotations |-> << >>, visibility |-> "public",
     default_value |-> None]

FunctionData(name, return_type, parameters) ==
    [name |-> name, parameters |-> parameters, annotations |-> << >>,
     visibility |-> "public", return_type |-> return_type]

\* uses is kept as the set whose sorted listing the source stores
KotlinAnalysisData ==
    [filename |-> "", package_name |-> "", imports |-> << >>, name |-> "",
     type |-> "", annotations |-> << >>, visibility |-> "public",
     members |-> << >>, constructor_param_type |-> << >>,
     extends |-> "", implements |-> << >>, functions |-> << >>,
     uses |-> {}, used_by |-> << >>]

----------------------------------------------------------------------------
(* The resolver *)

\* str.endswith
EndsWith(s, suffix) ==
    /\ Len(s) >= Len(suffix)
    /\ SubSeq(s, Len(s) - Len(suffix) + 1, Len(s)) = suffix

\* the first element of a for loop over imports that satisfies the test
FirstIndex(S) == CHOOSE k \in S : \A j \in S : k <= j

\* the same resolver with the same-package step tried before the wildcard step
ResolvePackageBeforeWildcard(tn, analysis) ==
    LET imports == analysis.imports
        direct == {k \in 1..Len(imports) : EndsWith(imports[k], "." \o tn)}
        wildcard == {k \in 1..Len(imports) : EndsWith(imports[k], ".*")}
    IN IF direct # {} THEN imports[FirstIndex(direct)]
       ELSE IF analysis.package_name # "" THEN analysis.package_name \o "." \o tn
       ELSE IF wildcard # {}
            THEN LET imp == imports[FirstIndex(wildcard)]
                 IN SubSeq(imp, 1, Len(imp) - 2) \o "." \o tn
       ELSE tn

\* the same resolver without the test that the package name is non-empty
ResolveAlwaysQualified(tn, analysis) ==
    LET imports == analysis.imports
        direct == {k \in 1..Len(imports) : EndsWith(imports[k], "." \o tn)}
        wildcard == {k \in 1..Len(imports) : EndsWith(imports[k], ".*")}
    IN IF direct # {} THEN imports[FirstIndex(direct)]
       ELSE IF wildcard # {}
            THEN LET imp == imports[FirstIndex(wildcard)]
                 IN SubSeq(imp, 1, Len(imp) - 2) \o "." \o tn
       ELSE analysis.package_name \o "." \o tn

_resolve_fully_qualified(tn, analysis) ==
    LET imports == analysis.imports
        direct == {k \in 1..Len(imports) : EndsWith(imports[k], "." \o tn)}
        wildcard == {k \in 1..Len(imports) : EndsWith(imports[k], ".*")}
    IN IF direct # {} THEN imports[FirstIndex(direct)]
       ELSE IF wildcard # {}
            THEN LET imp == imports[FirstIndex(wildcard)]
                 IN SubSeq(imp, 1, Len(imp) - 2) \o "." \o tn
       ELSE IF analysis.package_name # "" THEN analysis.package_name \o "." \o tn
       ELSE tn

Resolve ==
    /\ xpc = "resolve"
    /\ fq_name' = _resolve_fully_qualified(type_name, kotlin_analysis)
    /\ xpc' = "resolved"
    /\ UNCHANGED <<kotlin_analysis, user_types, type_name, aggVars, fileVars, auxVars>>

----------------------------------------------------------------------------
(* The uses of one declaration *)

\* the name the self-reference filter compares with
self_fq_name(analysis) == analysis.package_name \o "." \o analysis.name

\* one match of the user-type query, with the built-in filter applied to the
\* resolved name instead of the captured name
UserTypeUseFilterAfter(tn, analysis) ==
    LET fq == _resolve_fully_qualified(tn, analysis)
    IN IF fq \in KOTLIN_BUILTIN_TYPES THEN {}
       ELSE IF fq = self_fq_name(analysis) THEN {}
       ELSE {fq}

\* one match of the user-type query: what it adds to found_types
UserTypeUse(tn, analysis) ==
    IF tn \in KOTLIN_BUILTIN_TYPES THEN {}
    ELSE LET fq == _resolve_fully_qualified(tn, analysis)
         IN IF fq = self_fq_name(analysis) THEN {} ELSE {fq}

\* one member, parameter or return type: what it adds to found_types
SignatureTypeUse(type, analysis) ==
    IF type # "" /\ type \notin KOTLIN_BUILTIN_TYPES
    THEN LET fq == _resolve_fully_qualified(type, analysis)
         IN IF fq # self_fq_name(analysis) THEN {fq} ELSE {}
    ELSE {}

\* the declared types the signature loops visit
SignatureTypes(analysis) ==
    {analysis.members[k].type : k \in 1..Len(analysis.members)}
    \cup {analysis.constructor_param_type[k].type :
            k \in 1..Len(analysis.constructor_param_type)}
    \cup {analysis.functions[k].return_type : k \in 1..Len(analysis.functions)}
    \cup UNION {{analysis.functions[k].parameters[j].type :
                    j \in 1..Len(analysis.functions[k].parameters)} :
                k \in 1..Len(analysis.functions)}

\* the same pass without the loop over the functions
ExtractTypesMembersOnly(analysis) ==
    [analysis EXCEPT !.uses =
        analysis.uses
        \cup UNION {SignatureTypeUse(analysis.members[k].type, analysis) :
                       k \in 1..Len(analysis.members)}
        \cup UNION {SignatureTypeUse(analysis.constructor_param_type[k].type, analysis) :
                       k \in 1..Len(analysis.constructor_param_type)}]

_extract_types_from_members_and_functions(analysis) ==
    [analysis EXCEPT !.uses =
        analysis.uses \cup UNION {SignatureTypeUse(t, analysis) : t \in SignatureTypes(analysis)}]

_extract_classes_used_wq(captured, analysis) ==
    LET found_types == UNION {UserTypeUse(captured[k], analysis) : k \in 1..Len(captured)}
    IN _extract_types_from_members_and_functions(
           [analysis EXCEPT !.uses = analysis.uses \cup found_types])

\* Inputs of the analyser
Packages == {"", "app"}

ImportPaths == {"pkg.Foo", "lib.Foo", "Foo", "pkg.XFoo", "app.*", "app.models.*"}

TypeNames == {"Foo", "Order", "String"}

DeclaredNames == {"Foo", "Order"}

DeclarationImports == {<< >>, <<"app.Foo">>, <<"lib.String">>, <<"lib.*">>}

MemberLists ==
    {<< >>, <<VariableData("next", "Foo")>>, <<VariableData("title", "String")>>,
     <<VariableData("raw", "")>>}

ConstructorParamLists ==
    {<< >>, <<VariableData("order", "Order")>>, <<VariableData("id", "Int")>>}

FunctionLists ==
    {<< >>,
     <<FunctionData("run", "Unit", << >>)>>,
     <<FunctionData("copy", "Foo", <<VariableData("other", "Order")>>)>>,
     <<FunctionData("size", "Int", <<VariableData("items", "List")>>)>>}

\* header fields and functions of the declaration
ExtractHighLevelDeclaration ==
    /\ xpc = "declaration"
    /\ \E n \in DeclaredNames, fns \in FunctionLists :
          kotlin_analysis' = [kotlin_analysis EXCEPT !.name = n, !.functions = fns]
    /\ xpc' = "members"
    /\ UNCHANGED <<user_types, type_name, fq_name, aggVars, fileVars, auxVars>>

ExtractMembers ==
    /\ xpc = "members"
    /\ \E ms \in MemberLists :
          kotlin_analysis' = [kotlin_analysis EXCEPT !.members = ms]
    /\ xpc' = "constructor_params"
    /\ UNCHANGED <<user_types, type_name, fq_name, aggVars, fileVars, auxVars>>

ExtractConstructorParams ==
    /\ xpc = "constructor_params"
    /\ \E ps \in ConstructorParamLists :
          kotlin_analysis' = [kotlin_analysis EXCEPT !.constructor_param_type = ps]
    /\ xpc' = "classes_used"
    /\ UNCHANGED <<user_types, type_name, fq_name, aggVars, fileVars, auxVars>>

ExtractClassesUsed ==
    /\ xpc = "classes_used"
    /\ \E captured \in SeqsUpTo(TypeNames, MaxRefs) :
          /\ user_types' = captured
          /\ kotlin_analysis' = _extract_classes_used_wq(captured, kotlin_analysis)
    /\ xpc' = "appended"
    /\ UNCHANGED <<type_name, fq_name, aggVars, fileVars, auxVars>>

----------------------------------------------------------------------------
(* Syntax trees: what the parser and the pattern matcher hand to the analyser *)

\* a capture the match does not hold (KEY not in captures_dict)
Absent == "<absent>"

\* a child of a function_value_parameters node that is not a parameter
Child(type, text) ==
    [type |-> type, text |-> text, name |-> Absent, ptype |-> Absent,
     annotations |-> << >>]

\* a parameter child: its identifier, and the identifier of its user type if
\* the type is a user type or a nullable user type
Parameter(name, ptype, text) ==
    [type |-> "parameter", text |-> text, name |-> name, ptype |-> ptype,
     annotations |-> << >>]

\* a default value that is an anonymous function, fun(x: Int) {}: its own
\* parameter list is inside the subtree of the outer one, so the parameter
\* query matches its parameter too (name and ptype are those of that parameter)
AnonymousFunction(name, ptype, text) ==
    [type |-> "anonymous_function", text |-> text, name |-> name, ptype |-> ptype,
     annotations |-> << >>]

\* fun f()
NoParameters == <<Child("(", "("), Child(")", ")")>>

\* fun f(other: Order)
OneParameter ==
    <<Child("(", "("), Parameter("other", "Order", "other: Order"), Child(")", ")")>>

\* fun f(n: Int = 0)
DefaultParameter ==
    <<Child("(", "("), Parameter("n", "Int", "n: Int"), Child("=", "="),
      Child("number_literal", "0"), Child(")", ")")>>

\* fun f(block: () -> Unit): the type is a function type, not a user type
FunctionTypedParameter ==
    <<Child("(", "("), Parameter("block", Absent, "block: () -> Unit"),
      Child(")", ")")>>

\* a match of the function query: its captures
FunctionNode(name, visibility, return_type, params) ==
    [name |-> name, visibility |-> visibility, annotations |-> << >>,
     return_type |-> return_type, params |-> params]

\* a match of the members query: its captures
PropertyNode(name, type, visibility, annotations, default) ==
    [name |-> name, type |-> type, visibility |-> visibility,
     annotations |-> annotations, default |-> default]

\* a match of the constructor-parameters query: its captures
ClassParameter(name, type, visibility) ==
    [name |-> name, type |-> type, visibility |-> visibility,
     annotations |-> << >>, default |-> Absent]

\* the match of a primary constructor without parameters: no capture
NoClassParameter == ClassParameter(Absent, Absent, Absent)

\* a match of the extends/implements query: its captures
DelegationSpecifiers(extends, implements) ==
    [extends |-> extends, implements |-> implements]

\* a class_declaration or object_declaration node: its own header, primary
\* constructor and body, and the declarations nested in its body
DeclarationNode(type, keyword, annotations, visibility, modifier, name, ctor, parents, properties, functions, nested) ==
    [type |-> type, keyword |-> keyword, annotations |-> annotations,
     visibility |-> visibility, modifier |-> modifier, name |-> name,
     body |-> (properties # << >> \/ functions # << >> \/ nested # << >>),
     ctor |-> ctor, parents |-> parents, properties |-> properties,
     functions |-> functions, nested |-> nested]

\* data class Success(val data: Foo) : Result()
Success ==
    DeclarationNode("class_declaration", "class", << >>, Absent, "data", "Success",
                    <<ClassParameter("data", "Foo", Absent)>>,
                    <<DelegationSpecifiers("Result", Absent)>>, << >>, << >>, << >>)

\* @Keep private data class Error(val message: String) { fun show(): String }
Error ==
    DeclarationNode("class_declaration", "class", <<"@Keep">>, "private", "data",
                    "Error", <<ClassParameter("message", "String", Absent)>>, << >>,
                    << >>,
                    <<FunctionNode("show", Absent, "String", NoParameters)>>, << >>)

\* object Helper { fun run() }
Helper ==
    DeclarationNode("object_declaration", Absent, << >>, Absent, Absent, "Helper",
                    << >>, << >>, << >>,
                    <<FunctionNode("run", Absent, Absent, NoParameters)>>, << >>)

\* class Callback { fun each(block: () -> Unit) }
Callback ==
    DeclarationNode("class_declaration", "class", << >>, Absent, Absent, "Callback",
                    << >>, << >>, << >>,
                    <<FunctionNode("each", Absent, Absent, FunctionTypedParameter)>>,
                    << >>)

\* sealed class Result { data class Success ...; data class Error ... }
Result ==
    DeclarationNode("class_declaration", "class", << >>, Absent, "sealed", "Result",
                    << >>, << >>, << >>, << >>, <<Success, Error>>)

\* class Plain(private val id: Int) : Service {
\*     val next: Foo = null
\*     private fun copy(other: Order): Foo
\*     fun size(n: Int = 0): Int
\* }
Plain ==
    DeclarationNode("class_declaration", "class", << >>, Absent, Absent, "Plain",
                    <<ClassParameter("id", "Int", "private")>>,
                    <<DelegationSpecifiers(Absent, "Service")>>,
                    <<PropertyNode("next", "Foo", Absent, << >>, "null")>>,
                    <<FunctionNode("copy", "private", "Foo", OneParameter),
                      FunctionNode("size", Absent, "Int", DefaultParameter)>>,
                    << >>)

\* internal interface Service { fun run() }
Service ==
    DeclarationNode("class_declaration", "interface", << >>, "internal", Absent,
                    "Service", << >>, << >>, << >>,
                    <<FunctionNode("run", Absent, Absent, NoParameters)>>, << >>)

\* class Outer { @Inject private val own: Order = Order(); object Helper ... }
Outer ==
    DeclarationNode("class_declaration", "class", << >>, Absent, Absent, "Outer",
                    << >>, << >>,
                    <<PropertyNode("own", "Order", "private", <<"@Inject">>, "Order()")>>,
                    << >>, <<Helper>>)

\* class Host { class Callback ... }
Host ==
    DeclarationNode("class_declaration", "class", << >>, Absent, Absent, "Host",
                    << >>, << >>, << >>, << >>, <<Callback>>)

\* class Bare()
Bare ==
    DeclarationNode("class_declaration", "class", << >>, Absent, Absent, "Bare",
                    <<NoClassParameter>>, << >>, << >>, << >>, << >>)

\* the declarations a file can hold at its top level
TopLevelDeclarations ==
    {Result, Plain, Service, Outer, Host, Bare, Helper, Callback, Success}

\* the root node of a parsed file
SourceFile(package, imports, children) ==
    [package |-> package, imports |-> imports, children |-> children]

\* the import headers of a file, in source order: the captured paths
ImportHeaders ==
    {<< >>, <<"lib.Bar", "lib.Foo">>, <<"lib.Foo", "lib.Foo">>,
     <<"lib.Foo", "lib.Bar", "lib.Foo">>}

\* what analyze_kotlin_file is called with: bytes the parser accepts, with
\* the tree it builds from them, or a value the parser rejects
Sources ==
    {[bytes |-> TRUE, tree |-> SourceFile("app", <<"lib.Foo">>, c)] :
        c \in SeqsUpTo(TopLevelDeclarations, MaxDeclarations)}
    \cup {[bytes |-> TRUE, tree |-> SourceFile("app", imports, <<Bare>>)] :
              imports \in ImportHeaders}
    \cup {[bytes |-> TRUE, tree |-> SourceFile(Absent, << >>, << >>)],
          [bytes |-> FALSE, tree |-> SourceFile(Absent, << >>, << >>)]}

\* the query texts of the analyser, by the method that builds them
QueryTexts ==
    {"_get_package_query", "_get_import_query", "_get_high_level_class_query",
     "_get_extends_implements_query", "_get_function_query", "_get_members_query",
     "_get_ctor_params_query", "_get_class_or_object_query", "_get_user_type_query",
     "function_value_parameters"}

\* texts a caller passes to _create_query_cursor directly
CallerQueryTexts == {"(identifier) @name", "invalid query syntax"}

\* the texts Query(language, text) rejects under the installed grammar:
\* none or one of the analyser's own, and the text that is no query at all
BadQuerySets ==
    {{"invalid query syntax"} \cup b : b \in {{}} \cup {{q} : q \in QueryTexts}}

\* the tree parser.parse builds
root_node == source_bytes.tree

\* the declaration nodes of a subtree, in document order (pre-order)
RECURSIVE DeclarationsIn(_), DeclarationsOf(_)
DeclarationsOf(nodes) ==
    IF nodes = << >> THEN << >>
    ELSE DeclarationsIn(Head(nodes)) \o DeclarationsOf(Tail(nodes))

DeclarationsIn(node) == <<node>> \o DeclarationsOf(node.nested)

RECURSIVE Flat(_)
Flat(seqs) == IF seqs = << >> THEN << >> ELSE Head(seqs) \o Flat(Tail(seqs))

\* cursor.matches(node) of the function query: every function_declaration of
\* the subtree
FunctionMatches(node) ==
    LET ds == DeclarationsIn(node)
    IN Flat([k \in 1..Len(ds) |-> ds[k].functions])

\* cursor.matches(node) of the members query
MemberMatches(node) ==
    LET ds == DeclarationsIn(node)
    IN Flat([k \in 1..Len(ds) |-> ds[k].properties])

\* cursor.matches(node) of the constructor-parameters query
CtorParamMatches(node) ==
    LET ds == DeclarationsIn(node)
    IN Flat([k \in 1..Len(ds) |-> ds[k].ctor])

\* cursor.matches(node) of the extends/implements query
ParentMatches(node) ==
    LET ds == DeclarationsIn(node)
    IN Flat([k \in 1..Len(ds) |-> ds[k].parents])

\* the user types written in a declaration's own header, constructor and body
OwnUserTypes(d) ==
    LET ctor == [k \in 1..Len(d.ctor) |-> d.ctor[k].type]
        parents == Flat([k \in 1..Len(d.parents) |->
                            <<d.parents[k].extends, d.parents[k].implements>>])
        props == [k \in 1..Len(d.properties) |-> d.properties[k].type]
        funs == Flat([k \in 1..Len(d.functions) |->
                        [j \in 1..Len(d.functions[k].params) |->
                            d.functions[k].params[j].ptype]
                        \o <<d.functions[k].return_type>>])
    IN SelectSeq(ctor \o parents \o props \o funs, LAMBDA t : t # Absent)

\* cursor.matches(node) of the user-type query: the captured identifiers
UserTypeMatches(node) ==
    LET ds == DeclarationsIn(node)
    IN Flat([k \in 1..Len(ds) |-> OwnUserTypes(ds[k])])

----------------------------------------------------------------------------
(* analyze_kotlin_file *)

\* the outcome of a call: a returned value, or an exception on its way up
Ok(v) == [exc |-> None, val |-> v]

Raise(e) == [exc |-> e, val |-> None]

\* the rest of a method runs on the value of a call unless the call raised
Then(call, Rest(_)) == IF call.exc # None THEN call ELSE Rest(call.val)

QueryCursor(query_text) == "QueryCursor " \o query_text

\* the same method without the try block
CreateQueryCursorUncaught(query_text) ==
    IF query_text \in bad_queries THEN Raise("QueryError")
    ELSE Ok(QueryCursor(query_text))

_create_query_cursor(query_text) ==
    IF query_text \in bad_queries THEN Ok(None)
    ELSE Ok(QueryCursor(query_text))

\* cursor.matches(node), where found is what the matcher returns for the node
matches(cursor_call, found) ==
    IF cursor_call.exc # None THEN Raise(cursor_call.exc)
    ELSE IF cursor_call.val = None THEN Raise("AttributeError")
    ELSE Ok(found)

\* str(x) inside an f-string
Str(x) == IF x = None THEN "None" ELSE x

_extract_package_name_wq(root) ==
    Then(matches(_create_query_cursor("_get_package_query"),
                 IF root.package = Absent THEN << >> ELSE <<root.package>>),
         LAMBDA found : IF found # << >> THEN Ok(Head(found)) ELSE Ok(""))

_extract_imports_wq(root) ==
    Then(matches(_create_query_cursor("_get_import_query"), root.imports),
         LAMBDA found : Ok(SelectSeq(found, LAMBDA import_name : import_name # "")))

\* siblings.index(parameter_node): the 1-based position of the matched
\* parameter among the children of the list, or 0 where list.index raises
\* ValueError (the parameter of a nested list is no child of this list)
IndexInSiblings(children, k) == IF children[k].type = "parameter" THEN k ELSE 0

\* the default-value lookahead from that position
DefaultValue(children, idx_in_siblings) ==
    IF /\ idx_in_siblings # 0
       /\ idx_in_siblings + 2 <= Len(children)
       /\ children[idx_in_siblings + 1].type = "="
    THEN children[idx_in_siblings + 2].text
    ELSE None

\* the record of one parameter match (k is the position of the child that
\* holds the matched parameter)
ParamData(children, k) ==
    [VariableData(children[k].name, children[k].ptype)
        EXCEPT !.visibility = "",
               !.annotations = children[k].annotations,
               !.default_value = DefaultValue(children, IndexInSiblings(children, k))]

\* som_matches: the positions of the children that hold a matched parameter,
\* in document order
SomMatches(children) ==
    SelectSeq([k \in 1..Len(children) |-> k],
              LAMBDA k : /\ children[k].type \in {"parameter", "anonymous_function"}
                         /\ children[k].name # Absent)

\* the loop over som_matches: one match per parameter child
RECURSIVE ParametersLoop(_, _, _)
ParametersLoop(children, k, parameters) ==
    IF k > Len(children) THEN Ok(parameters)
    ELSE IF k \notin Range(SomMatches(children))
         THEN ParametersLoop(children, k + 1, parameters)
    ELSE IF children[k].ptype = Absent THEN Raise("KeyError")
    ELSE ParametersLoop(children, k + 1, Append(parameters, ParamData(children, k)))

\* the record built from the captures of a function match and its parameters
FunctionDataOf(match, parameters) ==
    [FunctionData(IF match.name # Absent THEN match.name ELSE "",
                  IF match.return_type # Absent THEN match.return_type ELSE "Unit",
                  parameters)
        EXCEPT !.annotations = match.annotations,
               !.visibility = IF match.visibility # Absent THEN match.visibility ELSE @]

\* one iteration of the loop over the matches of the function query
FunctionOf(match) ==
    Then(Then(matches(_create_query_cursor("function_value_parameters"), match.params),
              LAMBDA som_matches : ParametersLoop(som_matches, 1, << >>)),
         LAMBDA parameters : Ok(FunctionDataOf(match, parameters)))

RECURSIVE FunctionsLoop(_, _)
FunctionsLoop(found, analysis) ==
    IF found = << >> THEN Ok(analysis)
    ELSE Then(FunctionOf(Head(found)),
              LAMBDA function_data :
                  FunctionsLoop(Tail(found),
                                [analysis EXCEPT !.functions = Append(@, function_data)]))

\* root is the declaration whose class_body the query runs over
_extract_functions_wq(root, analysis) ==
    Then(matches(_create_query_cursor("_get_function_query"), FunctionMatches(root)),
         LAMBDA found : FunctionsLoop(found, analysis))

\* one iteration of the loop over the matches of the high-level query, before
\* the functions of the matched body are extracted
HeaderOf(match, analysis) ==
    [analysis EXCEPT
        !.annotations = IF match.annotations # << >> THEN match.annotations ELSE @,
        !.visibility = IF match.visibility = Absent THEN "public" ELSE match.visibility,
        !.type = IF match.modifier # Absent THEN match.modifier ELSE @,
        !.name = IF match.name # Absent THEN match.name ELSE @]

RECURSIVE HighLevelLoop(_, _)
HighLevelLoop(found, analysis) ==
    IF found = << >> THEN Ok(analysis)
    ELSE Then(IF Head(found).body
              THEN _extract_functions_wq(Head(found), HeaderOf(Head(found), analysis))
              ELSE Ok(HeaderOf(Head(found), analysis)),
              LAMBDA filled : HighLevelLoop(Tail(found), filled))

_extract_high_level_declaration_wq(root, analysis) ==
    Then(matches(_create_query_cursor("_get_high_level_class_query"),
                 DeclarationsIn(root)),
         LAMBDA found : HighLevelLoop(found, analysis))

RECURSIVE _extract_type(_), ExtractTypeOfChildren(_)
ExtractTypeOfChildren(children) ==
    IF children = << >> THEN None
    ELSE LET result == _extract_type(Head(children))
         IN IF result # None THEN result ELSE ExtractTypeOfChildren(Tail(children))

_extract_type(node) ==
    IF node.type = "object_declaration" THEN "object"
    ELSE IF node.type = "class_declaration" /\ node.keyword # Absent THEN node.keyword
    ELSE ExtractTypeOfChildren(node.nested)

\* f"{kotlin_analysis.type} {extracted}".strip()
TypeString(type, extracted) ==
    IF type = "" THEN Str(extracted) ELSE type \o " " \o Str(extracted)

RECURSIVE ParentsLoop(_, _)
ParentsLoop(found, analysis) ==
    IF found = << >> THEN analysis
    ELSE LET match == Head(found)
         IN ParentsLoop(Tail(found),
                [analysis EXCEPT
                    !.extends = IF match.extends # Absent THEN match.extends ELSE @,
                    !.implements = IF match.implements # Absent
                                   THEN Append(@, match.implements) ELSE @])

_extract_parents(root, analysis) ==
    Then(matches(_create_query_cursor("_get_extends_implements_query"),
                 ParentMatches(root)),
         LAMBDA found : Ok(ParentsLoop(found, analysis)))

\* the record built from the captures of a member or constructor-parameter match
MemberData(match) ==
    [VariableData(IF match.name # Absent THEN match.name ELSE "",
                  IF match.type # Absent THEN match.type ELSE "")
        EXCEPT !.annotations = match.annotations,
               !.visibility = IF match.visibility # Absent THEN match.visibility ELSE @,
               !.default_value = IF match.default # Absent THEN match.default ELSE @]

_extract_members_wq(root, analysis) ==
    Then(matches(_create_query_cursor("_get_members_query"), MemberMatches(root)),
         LAMBDA found :
             Ok([analysis EXCEPT
                    !.members = @ \o [k \in 1..Len(found) |-> MemberData(found[k])]]))

_extract_constructor_params_wq(root, analysis) ==
    Then(matches(_create_query_cursor("_get_ctor_params_query"),
                 SelectSeq(CtorParamMatches(root),
                           LAMBDA match : match # NoClassParameter)),
         LAMBDA captured :
             Ok([analysis EXCEPT
                    !.constructor_param_type =
                        @ \o [k \in 1..Len(captured) |-> MemberData(captured[k])]]))

\* _extract_classes_used_wq on a declaration node: the cursor, then the loop
ClassesUsedOf(declaration_node, analysis) ==
    Then(matches(_create_query_cursor("_get_user_type_query"),
                 UserTypeMatches(declaration_node)),
         LAMBDA found : Ok(_extract_classes_used_wq(found, analysis)))

\* the path analyze_kotlin_file is called with
file_path == "File.kt"

\* the body of the loop of _start for one declaration node
DeclarationRecord(declaration_node, package, imports) ==
    Then(Then(Then(Then(Then(
        _extract_high_level_declaration_wq(
            declaration_node,
            [KotlinAnalysisData EXCEPT !.filename = file_path,
                                       !.package_name = package,
                                       !.imports = imports]),
        LAMBDA a : Ok([a EXCEPT !.type = TypeString(@, _extract_type(declaration_node))])),
        LAMBDA a : _extract_parents(declaration_node, a)),
        LAMBDA a : _extract_members_wq(declaration_node, a)),
        LAMBDA a : _extract_constructor_params_wq(declaration_node, a)),
        LAMBDA a : ClassesUsedOf(declaration_node, a))

\* cursor.matches(root_node) of the declaration query
DeclarationMatches == DeclarationsOf(root_node.children)

\* a value analyze_kotlin_file hands to its caller
NoneValue == [type |-> "NoneType", items |-> << >>]

ListValue(items) == [type |-> "list", items |-> items]

\* nothing has been returned yet
Pending == [type |-> "pending", items |-> << >>]

\* the analyser is constructed
__init__ ==
    /\ fpc = "new"
    /\ fpc' = "ready"
    /\ UNCHANGED <<source_bytes, bad_queries, analysis_data, index, err, returned,
                   cursor, earlier, aggVars, extVars, auxVars>>

\* a caller creates a cursor on the constructed analyser
CreateQueryCursor ==
    /\ fpc = "ready"
    /\ \E query_text \in QueryTexts \cup CallerQueryTexts :
          cursor' = [query_text |-> query_text,
                     call |-> _create_query_cursor(query_text)]
    /\ fpc' = "cursor"
    /\ UNCHANGED <<source_bytes, bad_queries, analysis_data, index, err, returned,
                   earlier, aggVars, extVars, auxVars>>

\* analyze_kotlin_file up to the call of _start
ParseFile ==
    /\ fpc = "ready"
    /\ IF source_bytes.bytes
       THEN fpc' = "start" /\ err' = err
       ELSE fpc' = "except" /\ err' = "TypeError"
    /\ UNCHANGED <<source_bytes, bad_queries, analysis_data, index, returned,
                   cursor, earlier, aggVars, extVars, auxVars>>

\* the same step with the list kept on the analyser instead of in the call
StartFileKeepsList ==
    /\ fpc = "start"
    /\ LET package == _extract_package_name_wq(root_node)
           imports == _extract_imports_wq(root_node)
           found == matches(_create_query_cursor("_get_class_or_object_query"),
                            DeclarationMatches)
           raised == IF package.exc # None THEN package.exc
                     ELSE IF imports.exc # None THEN imports.exc
                     ELSE found.exc
       IN IF raised # None
          THEN fpc' = "except" /\ err' = raised /\ UNCHANGED <<analysis_data, index>>
          ELSE fpc' = "loop" /\ analysis_data' = analysis_data /\ index' = 1 /\ err' = err
    /\ UNCHANGED <<source_bytes, bad_queries, returned, cursor, earlier, aggVars, extVars, auxVars>>

\* _start up to the loop over the declaration matches
StartFile ==
    /\ fpc = "start"
    /\ LET package == _extract_package_name_wq(root_node)
           imports == _extract_imports_wq(root_node)
           found == matches(_create_query_cursor("_get_class_or_object_query"),
                            DeclarationMatches)
           raised == IF package.exc # None THEN package.exc
                     ELSE IF imports.exc # None THEN imports.exc
                     ELSE found.exc
       IN IF raised # None
          THEN fpc' = "except" /\ err' = raised /\ UNCHANGED <<analysis_data, index>>
          ELSE fpc' = "loop" /\ analysis_data' = << >> /\ index' = 1 /\ err' = err
    /\ UNCHANGED <<source_bytes, bad_queries, returned, cursor, earlier, aggVars, extVars, auxVars>>

\* one iteration of the loop of _start
ExtractDeclaration ==
    /\ fpc = "loop"
    /\ index <= Len(DeclarationMatches)
    /\ LET r == DeclarationRecord(DeclarationMatches[index],
                                  _extract_package_name_wq(root_node).val,
                                  _extract_imports_wq(root_node).val)
       IN IF r.exc # None
          THEN fpc' = "except" /\ err' = r.exc /\ UNCHANGED <<analysis_data, index>>
          ELSE /\ analysis_data' = Append(analysis_data, r.val)
               /\ index' = index + 1
               /\ UNCHANGED <<fpc, err>>
    /\ UNCHANGED <<source_bytes, bad_queries, returned, cursor, earlier, aggVars, extVars, auxVars>>

\* _start returns and analyze_kotlin_file returns its list
ReturnAnalysis ==
    /\ fpc = "loop"
    /\ index > Len(DeclarationMatches)
    /\ returned' = ListValue(analysis_data)
    /\ fpc' = "returned"
    /\ UNCHANGED <<source_bytes, bad_queries, analysis_data, index, err, cursor,
                   earlier, aggVars, extVars, auxVars>>

\* the except branch of analyze_kotlin_file: print, and fall off the end
ExceptBranch ==
    /\ fpc = "except"
    /\ returned' = NoneValue
    /\ fpc' = "returned"
    /\ UNCHANGED <<source_bytes, bad_queries, analysis_data, index, err, cursor,
                   earlier, aggVars, extVars, auxVars>>

\* the files a caller analyses between two calls on the same bytes
OtherSources ==
    {[bytes |-> TRUE, tree |-> SourceFile("app", <<"lib.Foo">>, <<Plain>>)],
     [bytes |-> FALSE, tree |-> SourceFile(Absent, << >>, << >>)]}

\* the caller keeps what the call returned and calls analyze_kotlin_file on
\* the same analyser again, with bytes it passed before or with another file
CallAgain ==
    /\ fpc = "returned"
    /\ Len(earlier) + 1 < MaxCalls
    /\ earlier' = Append(earlier, [source_bytes |-> source_bytes,
                                   returned |-> returned])
    /\ source_bytes' \in {e.source_bytes : e \in Range(earlier')} \cup OtherSources
    /\ err' = None
    /\ returned' = Pending
    /\ fpc' = "ready"
    /\ UNCHANGED <<bad_queries, analysis_data, index, cursor, aggVars, extVars,
                   auxVars>>

----------------------------------------------------------------------------

\* the files of the tree, each with its path, in walk order
\* analyze_kotlin_file is not running
FileIdle ==
    /\ source_bytes = [bytes |-> TRUE, tree |-> SourceFile(Absent, << >>, << >>)]
    /\ bad_queries = {}
    /\ analysis_data = << >>
    /\ index = 0
    /\ err = None
    /\ returned = Pending
    /\ cursor = [query_text |-> "", call |-> Ok(None)]
    /\ fpc = "idle"
    /\ earlier = << >>

\* no function match is being read and no ClassMeta is held
AuxIdle ==
    /\ siblings = << >>
    /\ idx = 0
    /\ function_params = << >>
    /\ ppc = "idle"
    /\ used_in = << >>

Walks ==
    {[k \in 1..Len(w) |-> [path |-> k, outcome |-> w[k]]] :
        w \in SeqsUpTo(FileOutcomes, MaxFiles)}

Init ==
    /\ walk \in Walks
    /\ next = 1
    /\ analysis_results = << >>
    /\ class_map = EmptyDict
    /\ usage_map = EmptyDict
    /\ pc = "start"
    /\ i = 0
    /\ kotlin_analysis = KotlinAnalysisData
    /\ user_types = << >>
    /\ type_name = ""
    /\ fq_name = ""
    /\ xpc = "idle"
    /\ FileIdle
    /\ AuxIdle

Next ==
    \/ BeginWalk
    \/ AnalyzeFile
    \/ EndPass1
    \/ BuildUsage
    \/ EndPass2
    \/ PopulateUsage
    \/ Return

Spec == Init /\ [][Next]_vars

\* the aggregator is not running
AggIdle ==
    /\ walk = << >>
    /\ next = 1
    /\ analysis_results = << >>
    /\ class_map = EmptyDict
    /\ usage_map = EmptyDict
    /\ pc = "idle"
    /\ i = 0

InitResolve ==
    /\ AggIdle
    /\ \E p \in Packages, imps \in SeqsUpTo(ImportPaths, MaxImports) :
          kotlin_analysis = [KotlinAnalysisData EXCEPT !.package_name = p, !.imports = imps]
    /\ user_types = << >>
    /\ type_name \in TypeNames
    /\ fq_name = ""
    /\ xpc = "resolve"
    /\ FileIdle
    /\ AuxIdle

NextResolve == Resolve

SpecResolve == InitResolve /\ [][NextResolve]_vars

\* _start has read the package and the imports and reached a declaration
InitUses ==
    /\ AggIdle
    /\ \E p \in Packages, imps \in DeclarationImports :
          kotlin_analysis = [KotlinAnalysisData EXCEPT !.package_name = p, !.imports = imps]
    /\ user_types = << >>
    /\ type_name = ""
    /\ fq_name = ""
    /\ xpc = "declaration"
    /\ FileIdle
    /\ AuxIdle

NextUses ==
    \/ ExtractHighLevelDeclaration
    \/ ExtractMembers
    \/ ExtractConstructorParams
    \/ ExtractClassesUsed

SpecUses == InitUses /\ [][NextUses]_vars

\* the extraction of a declaration's uses is not running
ExtIdle ==
    /\ kotlin_analysis = KotlinAnalysisData
    /\ user_types = << >>
    /\ type_name = ""
    /\ fq_name = ""
    /\ xpc = "idle"

\* analyze_kotlin_file is about to be called on a new analyser
InitFile ==
    /\ AggIdle
    /\ ExtIdle
    /\ source_bytes \in Sources
    /\ bad_queries \in BadQuerySets
    /\ analysis_data = << >>
    /\ index = 0
    /\ err = None
    /\ returned = Pending
    /\ cursor = [query_text |-> "", call |-> Ok(None)]
    /\ fpc = "new"
    /\ earlier = << >>
    /\ AuxIdle

NextFile ==
    \/ __init__
    \/ CreateQueryCursor
    \/ ParseFile
    \/ StartFile
    \/ ExtractDeclaration
    \/ ReturnAnalysis
    \/ ExceptBranch

SpecFile == InitFile /\ [][NextFile]_vars

\* the files of the repeated calls: at most one top-level declaration
CallSources == {s \in Sources : Len(s.tree.children) <= 1}

\* an analyser that is called several times
InitCalls ==
    /\ AggIdle
    /\ ExtIdle
    /\ source_bytes \in CallSources
    /\ bad_queries \in BadQuerySets
    /\ analysis_data = << >>
    /\ index = 0
    /\ err = None
    /\ returned = Pending
    /\ cursor = [query_text |-> "", call |-> Ok(None)]
    /\ fpc = "new"
    /\ earlier = << >>
    /\ AuxIdle

NextCalls ==
    \/ __init__
    \/ ParseFile
    \/ StartFile
    \/ ExtractDeclaration
    \/ ReturnAnalysis
    \/ ExceptBranch
    \/ CallAgain

SpecCalls == InitCalls /\ [][NextCalls]_vars

----------------------------------------------------------------------------
(* The parameter loop of _extract_functions_wq on one parameter list *)

\* the children one parameter contributes to its list
ParameterSlots ==
    {<<Parameter("other", "Order", "other: Order")>>,
     <<Parameter("n", "Int", "n: Int"), Child("=", "="), Child("number_literal", "0")>>,
     <<Parameter("block", Absent, "block: () -> Unit")>>,
     <<Parameter("f", "Any", "f: Any"), Child("=", "="),
       AnonymousFunction("x", "Int", "fun(x: Int) {}")>>,
     <<Parameter("m", "Int", "m: Int"), Child("=", "=")>>}

RECURSIVE Joined(_)
Joined(slots) ==
    IF slots = << >> THEN << >>
    ELSE IF Len(slots) = 1 THEN Head(slots)
    ELSE Head(slots) \o <<Child(",", ",")>> \o Joined(Tail(slots))

\* the children of a function_value_parameters node: up to MaxParams
\* parameters, closed, or cut off where the bytes end inside the list
ParameterLists ==
    {<<Child("(", "(")>> \o Joined(slots) \o closer :
        slots \in SeqsUpTo(ParameterSlots, MaxParams),
        closer \in {<<Child(")", ")")>>, << >>}}

\* one iteration of the loop over som_matches
ExtractParameter ==
    /\ ppc = "loop"
    /\ idx <= Len(SomMatches(siblings))
    /\ LET k == SomMatches(siblings)[idx]
       IN IF siblings[k].ptype = Absent
          THEN ppc' = "raised" /\ UNCHANGED <<idx, function_params>>
          ELSE /\ function_params' = Append(function_params, ParamData(siblings, k))
               /\ idx' = idx + 1
               /\ ppc' = ppc
    /\ UNCHANGED <<siblings, used_in, aggVars, extVars, fileVars>>

\* the loop is over
EndParameters ==
    /\ ppc = "loop"
    /\ idx > Len(SomMatches(siblings))
    /\ ppc' = "done"
    /\ UNCHANGED <<siblings, idx, function_params, used_in, aggVars, extVars, fileVars>>

\* a function match whose parameter list is about to be read
InitParams ==
    /\ AggIdle
    /\ ExtIdle
    /\ FileIdle
    /\ siblings \in ParameterLists
    /\ idx = 1
    /\ function_params = << >>
    /\ ppc = "loop"
    /\ used_in = << >>

NextParams ==
    \/ ExtractParameter
    \/ EndParameters

SpecParams == InitParams /\ [][NextParams]_vars

----------------------------------------------------------------------------
(* ClassMeta: the used_in list *)

\* the class names update_used_in is called with
UserClasses == {"A", "B", "C", "D", "E"}

\* the longest used_in a ClassMeta is constructed with
MaxInitialUsers == 2

\* a list with each entry at most once
DuplicateFree(used) ==
    \A a, b \in 1..Len(used) : used[a] = used[b] => a = b

\* append without the membership test
update_used_in_unchecked(used, user_class) == Append(used, user_class)

\* ClassMeta.update_used_in on self.used_in
update_used_in(used, user_class) ==
    IF user_class \notin Range(used) THEN Append(used, user_class) ELSE used

\* one call of the method on the instance
CallUpdateUsedIn ==
    /\ \E user_class \in UserClasses :
          used_in' = update_used_in(used_in, user_class)
    /\ UNCHANGED <<siblings, idx, function_params, ppc, aggVars, extVars, fileVars>>

\* an instance constructed with a duplicate-free used_in
InitMeta ==
    /\ AggIdle
    /\ ExtIdle
    /\ FileIdle
    /\ siblings = << >>
    /\ idx = 0
    /\ function_params = << >>
    /\ ppc = "idle"
    /\ used_in \in {used \in SeqsUpTo(UserClasses, MaxInitialUsers) : DuplicateFree(used)}

NextMeta == CallUpdateUsedIn

SpecMeta == InitMeta /\ [][NextMeta]_vars

----------------------------------------------------------------------------
(* The single-record analyser (code_documenter/workers/tree_hugger2.0.py):  *)
(* one KotlinAnalysis per file, filled in place by _start                   *)

\* KotlinAnalysis(): the same fields and defaults
KotlinAnalysis == KotlinAnalysisData

\* the query texts of the single-record analyser, by their class constant
SingleQueryTexts ==
    {"PACKAGE_QUERY", "IMPORT_QUERY", "HIGH_LEVEL_CLASS_QUERY",
     "EXTENDS_IMPLEMENTS_QUERY", "FUNCTION_QUERY", "MEMBERS_QUERY",
     "CTOR_PARAMS_QUERY"}

\* the texts the installed grammar rejects: none, or one of them
SingleBadQuerySets == {{}} \cup {{q} : q \in SingleQueryTexts}

\* an exception leaves the record as the steps before it filled it
Fail(e, analysis) == [exc |-> e, val |-> analysis]

\* cursor.matches on what _create_query_cursor returned for a rejected text
NoCursor(query_text) == _create_query_cursor(query_text).val = None

\* the class_declaration nodes of the file, in document order
ClassDeclarations(root) ==
    SelectSeq(DeclarationsOf(root.children),
              LAMBDA d : d.type = "class_declaration")

\* the text of a function_value_parameters node
RECURSIVE NodeText(_)
NodeText(children) ==
    IF children = << >> THEN ""
    ELSE (IF Head(children).type = "=" THEN " = " ELSE Head(children).text)
         \o NodeText(Tail(children))

SingleImports(root, analysis) ==
    IF NoCursor("IMPORT_QUERY") THEN Fail("AttributeError", analysis)
    ELSE Ok([analysis EXCEPT
                !.imports = SelectSeq(root.imports,
                                      LAMBDA import_name : import_name # "")])

SinglePackageName(root, analysis) ==
    IF NoCursor("PACKAGE_QUERY") THEN Fail("AttributeError", analysis)
    ELSE Ok([analysis EXCEPT
                !.package_name = IF root.package = Absent THEN "" ELSE root.package])

\* the record of a function: the parameters are kept as the text of the list
SingleFunctionData(match) ==
    [FunctionData(IF match.name # Absent THEN match.name ELSE "",
                  IF match.return_type # Absent THEN match.return_type ELSE "Unit",
                  NodeText(match.params))
        EXCEPT !.annotations = match.annotations,
               !.visibility = IF match.visibility # Absent THEN match.visibility ELSE @]

\* _extract_functions_wq on the class body of a match
SingleFunctions(node, analysis) ==
    IF NoCursor("FUNCTION_QUERY") THEN Fail("AttributeError", analysis)
    ELSE LET found == FunctionMatches(node)
         IN Ok([analysis EXCEPT
                   !.functions =
                       @ \o [k \in 1..Len(found) |-> SingleFunctionData(found[k])]])

RECURSIVE SingleHighLevelLoop(_, _)
SingleHighLevelLoop(found, analysis) ==
    IF found = << >> THEN Ok(analysis)
    ELSE Then(IF Head(found).body
              THEN SingleFunctions(Head(found), HeaderOf(Head(found), analysis))
              ELSE Ok(HeaderOf(Head(found), analysis)),
              LAMBDA filled : SingleHighLevelLoop(Tail(found), filled))

SingleHighLevelDeclaration(root, analysis) ==
    IF NoCursor("HIGH_LEVEL_CLASS_QUERY") THEN Fail("AttributeError", analysis)
    ELSE SingleHighLevelLoop(ClassDeclarations(root), analysis)

\* _extract_type without the object_declaration case, from the root node
RECURSIVE SingleExtractType(_)
SingleExtractType(nodes) ==
    IF nodes = << >> THEN None
    ELSE IF Head(nodes).type = "class_declaration" /\ Head(nodes).keyword # Absent
         THEN Head(nodes).keyword
    ELSE LET result == SingleExtractType(Head(nodes).nested)
         IN IF result # None THEN result ELSE SingleExtractType(Tail(nodes))

SingleParents(root, analysis) ==
    IF NoCursor("EXTENDS_IMPLEMENTS_QUERY") THEN Fail("AttributeError", analysis)
    ELSE LET ds == DeclarationsOf(root.children)
         IN Ok(ParentsLoop(Flat([k \in 1..Len(ds) |-> ds[k].parents]), analysis))

SingleMembers(root, analysis) ==
    IF NoCursor("MEMBERS_QUERY") THEN Fail("AttributeError", analysis)
    ELSE LET ds == DeclarationsOf(root.children)
             found == Flat([k \in 1..Len(ds) |-> ds[k].properties])
         IN Ok([analysis EXCEPT
                   !.members = @ \o [k \in 1..Len(found) |-> MemberData(found[k])]])

\* every match appends a record, also the match of an empty constructor
SingleConstructorParams(root, analysis) ==
    IF NoCursor("CTOR_PARAMS_QUERY") THEN Fail("AttributeError", analysis)
    ELSE LET ds == DeclarationsOf(root.children)
             found == Flat([k \in 1..Len(ds) |-> ds[k].ctor])
         IN Ok([analysis EXCEPT
                   !.constructor_param_type =
                       @ \o [k \in 1..Len(found) |-> MemberData(found[k])]])

\* the try block of _start: the steps in order, up to the first that raises
SingleStart(root, analysis) ==
    Then(Then(Then(Then(Then(Then(
        SingleImports(root, analysis),
        LAMBDA a : SinglePackageName(root, a)),
        LAMBDA a : SingleHighLevelDeclaration(root, a)),
        LAMBDA a : Ok([a EXCEPT !.type = TypeString(@, SingleExtractType(root.children))])),
        LAMBDA a : SingleParents(root, a)),
        LAMBDA a : SingleMembers(root, a)),
        LAMBDA a : SingleConstructorParams(root, a))

\* a KotlinAnalysis handed to the caller
RecordValue(record) == [type |-> "KotlinAnalysis", items |-> <<record>>]

\* analyze_kotlin_file up to the call of _start: the record is created
\* before the try block
ParseSingle ==
    /\ fpc = "ready"
    /\ kotlin_analysis' = KotlinAnalysis
    /\ IF source_bytes.bytes
       THEN fpc' = "single_start" /\ err' = err
       ELSE fpc' = "single_except" /\ err' = "TypeError"
    /\ UNCHANGED <<source_bytes, bad_queries, analysis_data, index, returned, cursor,
                   earlier, user_types, type_name, fq_name, xpc, aggVars, auxVars>>

\* _start: what the steps filled stays in the record, and its except branch
\* prints the exception and returns
StartSingle ==
    /\ fpc = "single_start"
    /\ LET r == SingleStart(root_node, kotlin_analysis)
       IN /\ kotlin_analysis' = r.val
          /\ err' = r.exc
    /\ fpc' = "single_return"
    /\ UNCHANGED <<source_bytes, bad_queries, analysis_data, index, returned, cursor,
                   earlier, user_types, type_name, fq_name, xpc, aggVars, auxVars>>

\* the except branch of analyze_kotlin_file: print, and go on to the return
ExceptSingle ==
    /\ fpc = "single_except"
    /\ fpc' = "single_return"
    /\ UNCHANGED <<source_bytes, bad_queries, analysis_data, index, err, returned,
                   cursor, earlier, aggVars, extVars, auxVars>>

\* the return written inside the try block, as in the list analyser: a call
\* that failed falls off the end
ReturnSingleInsideTry ==
    /\ fpc = "single_return"
    /\ returned' = IF err # None THEN NoneValue ELSE RecordValue(kotlin_analysis)
    /\ fpc' = "returned"
    /\ UNCHANGED <<source_bytes, bad_queries, analysis_data, index, err, cursor,
                   earlier, aggVars, extVars, auxVars>>

\* return kotlin_analysis
ReturnSingle ==
    /\ fpc = "single_return"
    /\ returned' = RecordValue(kotlin_analysis)
    /\ fpc' = "returned"
    /\ UNCHANGED <<source_bytes, bad_queries, analysis_data, index, err, cursor,
                   earlier, aggVars, extVars, auxVars>>

InitSingle ==
    /\ AggIdle
    /\ ExtIdle
    /\ source_bytes \in Sources
    /\ bad_queries \in SingleBadQuerySets
    /\ analysis_data = << >>
    /\ index = 0
    /\ err = None
    /\ returned = Pending
    /\ cursor = [query_text |-> "", call |-> Ok(None)]
    /\ fpc = "new"
    /\ earlier = << >>
    /\ AuxIdle

NextSingle ==
    \/ __init__
    \/ ParseSingle
    \/ StartSingle
    \/ ExceptSingle
    \/ ReturnSingle

SpecSingle == InitSingle /\ [][NextSingle]_vars

----------------------------------------------------------------------------

\* Sanity of the aggregator's state
TypeOK ==
    /\ pc \in {"idle", "start", "pass1", "pass2", "pass3", "done"}
    /\ next \in 1..(Len(walk) + 1)
    /\ DOMAIN class_map \subseteq ClassNames
    /\ \A k \in DOMAIN class_map : class_map[k] \in 1..Len(analysis_results)

----------------------------------------------------------------------------
(* The whole run as a function of the processing order *)

RECURSIVE Pass1(_, _, _)
Pass1(results, cmap, files) ==
    IF files = << >> THEN [results |-> results, cmap |-> cmap]
    ELSE LET r == CollectFile(results, cmap, Head(files).path, Head(files).outcome)
         IN Pass1(r.results, r.cmap, Tail(files))

RECURSIVE Pass2(_, _, _, _)
Pass2(umap, results, cmap, k) ==
    IF k > Len(results) THEN umap
    ELSE Pass2(AddUsages(umap, cmap, results[k].dependencies, results[k].name),
               results, cmap, k + 1)

Pass3(results, umap) == [k \in 1..Len(results) |-> SetUsage(results[k], umap)]

analyze_kotlin_codebase(files) ==
    LET collected == Pass1(<< >>, EmptyDict, files)
        umap == Pass2(EmptyDict, collected.results, collected.cmap, 1)
    IN [results |-> Pass3(collected.results, umap), cmap |-> collected.cmap]

\* every order in which the same files can be processed
Orders(files) ==
    {[k \in 1..Len(files) |-> files[perm[k]]] : perm \in Permutations(1..Len(files))}

----------------------------------------------------------------------------
(* The graph the run builds *)

GraphKeys == DOMAIN class_map

Uses(class_info) == Range(class_info.dependencies)

UsedBy(class_info) == Range(class_info.usage)

\* keys, and per key the uses and usedBy sets
GraphOf(results, cmap) ==
    [k \in DOMAIN cmap |-> [uses |-> Uses(results[cmap[k]]),
                            usedBy |-> UsedBy(results[cmap[k]])]]

\* the function returns {"analysis_report": analysis_results} and nothing else
conflicts == << >>

Phase ==
    CASE pc = "start" -> "Empty"
      [] pc = "pass1" -> "Collecting"
      [] pc \in {"pass2", "pass3"} -> "Reconciling"
      [] pc = "done" -> "Finalized"

Reports == 1..Len(analysis_results)

----------------------------------------------------------------------------
(* Claims about the aggregator *)

\* C1: bidirectional consistency. When the run has finished, for all
\* declarations A and B of the graph, B's key is in A.uses (and B is a key of
\* the graph) exactly when A's key is in B.usedBy.
C1_BidirectionalConsistency ==
    pc = "done" =>
        \A a \in Reports, b \in Reports :
            LET A == analysis_results[a]
                B == analysis_results[b]
            IN (B.name \in Uses(A) /\ B.name \in GraphKeys) <=> (A.name \in UsedBy(B))

\* C2: order independence. Whatever the order in which the files are
\* processed, the finished graph has the same keys and, per key, the same
\* uses and usedBy sets.
C2_OrderIndependence ==
    pc = "done" =>
        \A order \in Orders(walk) :
            LET other == analyze_kotlin_codebase(order)
            IN GraphOf(other.results, other.cmap) = GraphOf(analysis_results, class_map)

\* C3: duplicates are never silently overwritten. An entry of the graph is
\* never replaced by a later declaration with the same key, and whenever two
\* declarations share a key a conflict naming the key and both paths is recorded.
C3_DuplicateIsReportedConflict ==
    [][ /\ \A k \in DOMAIN class_map :
              k \in DOMAIN class_map' /\ class_map'[k] = class_map[k]
        /\ \A a \in 1..Len(analysis_results'), b \in 1..Len(analysis_results') :
              (a # b /\ analysis_results'[a].name = analysis_results'[b].name) =>
                  \E c \in Range(conflicts) :
                      /\ c.fqn = analysis_results'[a].name
                      /\ {analysis_results'[a].path, analysis_results'[b].path} \subseteq c.paths
      ]_vars

\* C4: the graph is keyed by fully-qualified name. Two declarations with the
\* same simple name in different packages are two distinct entries, and a use
\* that resolves to one of them (a user in that package, none in the other)
\* is added to the usedBy of that one only.
C4_KeyedByFullyQualifiedName ==
    pc = "done" =>
        \A a \in Reports, b \in Reports :
            LET A == analysis_results[a]
                B == analysis_results[b]
            IN (A.name = B.name /\ A.package # B.package) =>
                  /\ \E ka \in GraphKeys, kb \in GraphKeys :
                        ka # kb /\ class_map[ka] = a /\ class_map[kb] = b
                  /\ \A u \in Reports :
                        LET U == analysis_results[u]
                        IN (/\ A.name \in Uses(U)
                            /\ U.package = A.package
                            /\ \A v \in Reports :
                                  analysis_results[v].package = B.package
                                      => A.name \notin Uses(analysis_results[v]))
                           => U.name \notin UsedBy(B)

\* what the run has written about usedBy so far
UsedByData ==
    <<usage_map,
      {<<k, analysis_results[k].usage>> :
          k \in {r \in Reports : analysis_results[r].usage # << >>}}>>

\* what the run has inserted so far
Inserted == <<class_map, [k \in Reports |-> [analysis_results[k] EXCEPT !.usage = << >>]]>>

\* C10: phase ordering. The graph moves only Empty -> Collecting ->
\* Reconciling -> Finalized; usedBy is written only while reconciling, after
\* every file has been processed; declarations are inserted only while
\* collecting; a finalized graph is not written.
C10_PhaseOrdering ==
    [][ /\ \/ Phase' = Phase
           \/ <<Phase, Phase'>> \in {<<"Empty", "Collecting">>,
                                     <<"Collecting", "Reconciling">>,
                                     <<"Reconciling", "Finalized">>}
        /\ UsedByData' # UsedByData => (Phase = "Reconciling" /\ next > Len(walk))
        /\ Inserted' # Inserted => (Phase = "Collecting" /\ Phase' = "Collecting")
        /\ Phase = "Finalized" => UNCHANGED <<analysis_results, class_map, usage_map>>
      ]_vars

\* a finished run over several files in which a usedBy entry was written
C10_Witness ==
    /\ pc = "done"
    /\ Len(walk) >= 2
    /\ \E k \in Reports : analysis_results[k].usage # << >>

\* the names of the declarations whose dependencies contain the name
UsersOf(name) ==
    {analysis_results[r].name : r \in {k \in Reports : name \in Uses(analysis_results[k])}}

\* C11: unresolved references are harmless. While the run reconciles, for
\* every declaration A and every target in A.uses that is not a key of the
\* graph: no entry is created for the target (neither in the graph nor in the
\* usage map), every usedBy set holds only users whose uses contain its
\* owner, and the uses of every declaration stay as collected.
C11_UnresolvedReferencesHarmless ==
    [][ (pc = "pass2" \/ pc = "pass3") =>
          /\ GraphKeys' = GraphKeys
          /\ Len(analysis_results') = Len(analysis_results)
          /\ \A a \in Reports :
                /\ analysis_results'[a].dependencies = analysis_results[a].dependencies
                /\ \A target \in Uses(analysis_results[a]) \ GraphKeys :
                      target \notin DOMAIN usage_map'
                /\ UsedBy(analysis_results'[a]) \subseteq UsersOf(analysis_results[a].name)
      ]_vars

\* a finished run in which a declaration uses X, which no file declares, and
\* some usedBy set was written
C11_Witness ==
    /\ pc = "done"
    /\ \E a \in Reports : "X" \in Uses(analysis_results[a]) /\ "X" \notin GraphKeys
    /\ \E b \in Reports : analysis_results[b].usage # << >>

\* the declarations the files of the walk hand to the insert loop: path and
\* position in the file's list
Handed ==
    UNION {{<<k, j>> : j \in {n \in 1..Len(walk[k].outcome.found) :
                                  walk[k].outcome.found[n].name # ""}} :
           k \in {n \in 1..Len(walk) : ~walk[n].outcome.raises}}

WithoutFile(files, k) == SubSeq(files, 1, k - 1) \o SubSeq(files, k + 1, Len(files))

\* C14: a failing file does not abort or alter the batch. When the run has
\* finished, every file has been visited, and for every file whose read or
\* analysis raised, the report (declarations and their usedBy lists) and the
\* graph are those of the run over the same walk without that file.
C14_FailingFileIsSkipped ==
    pc = "done" =>
        /\ next = Len(walk) + 1
        /\ \A k \in 1..Len(walk) :
              walk[k].outcome.raises =>
                  analyze_kotlin_codebase(WithoutFile(walk, k))
                      = [results |-> analysis_results, cmap |-> class_map]

\* a finished run in which a file raised after and before files that
\* contributed declarations, one of them used by another
C14_Witness ==
    /\ pc = "done"
    /\ Len(walk) = 3
    /\ walk[2].outcome.raises
    /\ \E a \in Reports, b \in Reports :
          /\ analysis_results[a].path = 1
          /\ analysis_results[b].path = 3
          /\ analysis_results[a].usage # << >>

\* the pure run and the stepwise run agree
RunAgrees ==
    pc = "done" =>
        analyze_kotlin_codebase(walk) = [results |-> analysis_results, cmap |-> class_map]

----------------------------------------------------------------------------
(* Claims about the resolver and the uses of a declaration *)

\* the text after the last "." of a path (the whole path if it has none)
LastSegment(path) ==
    LET dots == {k \in 1..Len(path) : SubSeq(path, k, k) = "."}
    IN IF dots = {} THEN path
       ELSE SubSeq(path, (CHOOSE k \in dots : \A j \in dots : j <= k) + 1, Len(path))

\* the imports whose last segment is the resolved type name
ExactMatches ==
    {k \in 1..Len(kotlin_analysis.imports) :
        LastSegment(kotlin_analysis.imports[k]) = type_name}

\* the wildcard imports
Wildcards ==
    {k \in 1..Len(kotlin_analysis.imports) : EndsWith(kotlin_analysis.imports[k], ".*")}

\* the name under which a file of the same package, without imports, refers
\* to the declaration: the key its neighbours' uses edges point to
OwnFqn(analysis) ==
    _resolve_fully_qualified(analysis.name, [analysis EXCEPT !.imports = << >>])

\* every type name the extraction of the declaration has looked at
Referenced == Range(user_types) \cup (SignatureTypes(kotlin_analysis) \ {""})

\* C5: no self-loop. For every package name, empty or not, and every import
\* list, the declaration's own fully-qualified name is not in its uses.
C5_NoSelfLoop ==
    xpc = "appended" => OwnFqn(kotlin_analysis) \notin kotlin_analysis.uses

\* C6: exact import wins. If some import path has its last segment equal to
\* the type name, the resolver returns such an import path, whatever the
\* wildcard imports and the package.
C6_ExactImportWins ==
    xpc = "resolved" =>
        (ExactMatches # {} =>
            fq_name \in {kotlin_analysis.imports[k] : k \in ExactMatches})

\* C7: wildcard import is second. With no exact import and some wildcard
\* import, the resolver returns a wildcard import's prefix + "." + the type
\* name, for every package; the single import app.models.* resolves Order to
\* app.models.Order.
C7_WildcardSecond ==
    xpc = "resolved" =>
        /\ (ExactMatches = {} /\ Wildcards # {}) =>
              fq_name \in {SubSeq(kotlin_analysis.imports[k], 1,
                                  Len(kotlin_analysis.imports[k]) - 2)
                             \o "." \o type_name : k \in Wildcards}
        /\ (kotlin_analysis.imports = <<"app.models.*">> /\ type_name = "Order") =>
              fq_name = "app.models.Order"

\* a wildcard import decided the result although the package is not empty
C7_Witness ==
    /\ xpc = "resolved"
    /\ kotlin_analysis.package_name = "app"
    /\ kotlin_analysis.imports = <<"app.models.*">>
    /\ type_name = "Order"
    /\ fq_name = "app.models.Order"

\* C8: same package, then fallback. With neither an exact nor a wildcard
\* import, the resolver returns package + "." + name if the package is
\* non-empty and the bare name if it is empty.
C8_SamePackageThenFallback ==
    xpc = "resolved" =>
        ((ExactMatches = {} /\ Wildcards = {}) =>
            fq_name = IF kotlin_analysis.package_name # ""
                      THEN kotlin_analysis.package_name \o "." \o type_name
                      ELSE type_name)

\* the fallback returned the bare name past imports that do not match
C8_Witness ==
    /\ xpc = "resolved"
    /\ kotlin_analysis.package_name = ""
    /\ kotlin_analysis.imports # << >>
    /\ ExactMatches = {} /\ Wildcards = {}
    /\ fq_name = type_name

\* C9: built-in filtering. No entry of uses comes from an allowlisted type
\* name, whatever the imports and the package, and a declaration that
\* references only allowlisted types has empty uses.
C9_BuiltinFiltering ==
    xpc = "appended" =>
        /\ \A u \in kotlin_analysis.uses : LastSegment(u) \notin KOTLIN_BUILTIN_TYPES
        /\ Referenced \subseteq KOTLIN_BUILTIN_TYPES => kotlin_analysis.uses = {}

\* String was referenced under an import whose last segment is String
C9_Witness ==
    /\ xpc = "appended"
    /\ "String" \in Range(user_types)
    /\ kotlin_analysis.imports = <<"lib.String">>
    /\ kotlin_analysis.package_name = "app"
    /\ Referenced # {}
    /\ Referenced \subseteq KOTLIN_BUILTIN_TYPES
    /\ kotlin_analysis.uses = {}

----------------------------------------------------------------------------
(* Claims about the analysis of one file *)

\* analyze_kotlin_file has returned to its caller
Returned == fpc = "returned"

\* it returned the list of _start
ReturnedList == Returned /\ returned.type = "list"

\* parsing or extraction failed: an exception reached the except branch
Failed == err # None

\* what the caller can read about a failure besides the returned value: the
\* exception is printed and dropped
parseError == None

\* the declaration node the k-th record of the list was built from
RecordedNode(k) == DeclarationMatches[k]

\* the names in a list of records or of matches, leaving out absent ones
NamesOf(records) ==
    SelectSeq([k \in 1..Len(records) |-> records[k].name], LAMBDA n : n # Absent)

\* the parameter children of a function match that carry no user type
UntypedParameters(match) ==
    {k \in 1..Len(match.params) :
        match.params[k].type = "parameter" /\ match.params[k].ptype = Absent}

\* C13: per-file failure result. When parsing or extraction of the file
\* fails, analyze_kotlin_file returns (it does not raise) an empty declaration
\* list together with a non-null error marker the caller can read.
C13_FailureYieldsEmptyListAndMarker ==
    (Returned /\ Failed) =>
        /\ returned = ListValue(<< >>)
        /\ parseError # None

\* C15: extraction gaps never raise. With every pattern compiled and a
\* parsed tree, a match with an absent optional capture raises nothing: the
\* list holds a record for every declaration match of the file, and a
\* function parameter whose type was not captured is recorded with its name
\* and the default type "".
C15_ExtractionGapsNeverRaise ==
    (Returned /\ source_bytes.bytes /\ bad_queries \cap QueryTexts = {}) =>
        /\ ~Failed
        /\ returned.type = "list"
        /\ Len(returned.items) = Len(DeclarationMatches)
        /\ \A k \in 1..Len(returned.items) :
              \A m \in Range(FunctionMatches(RecordedNode(k))) :
                  \A u \in UntypedParameters(m) :
                      \E fn \in Range(returned.items[k].functions) :
                          /\ fn.name = m.name
                          /\ \E prm \in Range(fn.parameters) :
                                prm.name = m.params[u].name /\ prm.type = ""

\* C16: a pattern compile error is fatal at startup. If one of the
\* analyser's patterns does not compile, construction does not complete: the
\* analyser never becomes ready, no file is analysed with the pattern
\* missing, and the error never becomes the fault of a file.
C16_CompileErrorFatalAtStartup ==
    bad_queries \cap QueryTexts # {} => fpc = "new"

C18_OneRecordPerTopLevelType ==
    ReturnedList =>
        [k \in 1..Len(returned.items) |-> RecordedNode(k)] = root_node.children

\* the header of a declaration node itself
OwnType(d) ==
    LET keyword == IF d.type = "object_declaration" THEN "object" ELSE d.keyword
    IN IF d.modifier = Absent THEN keyword ELSE d.modifier \o " " \o keyword

OwnVisibility(d) == IF d.visibility = Absent THEN "public" ELSE d.visibility

\* C19: header fields come from the declaration's own node. For every
\* record built from a declaration whose body holds nested declarations, the
\* name, the type (modifier and keyword), the visibility and the annotations
\* are those of that declaration, not of a nested one matched later.
C19_HeaderFromOwnNode ==
    ReturnedList =>
        \A k \in 1..Len(returned.items) :
            LET d == RecordedNode(k)
                r == returned.items[k]
            IN d.nested # << >> =>
                  /\ r.name = d.name
                  /\ r.type = OwnType(d)
                  /\ r.visibility = OwnVisibility(d)
                  /\ r.annotations = d.annotations

\* C20: no cross-declaration leakage. In every record the members,
\* constructor parameters and functions are exactly those of the
\* declaration's own primary constructor and body, and over the whole list
\* each of them is recorded once.
C20_NoCrossDeclarationLeakage ==
    ReturnedList =>
        /\ \A k \in 1..Len(returned.items) :
              LET d == RecordedNode(k)
                  r == returned.items[k]
              IN /\ NamesOf(r.members) = NamesOf(d.properties)
                 /\ NamesOf(r.constructor_param_type) = NamesOf(d.ctor)
                 /\ NamesOf(r.functions) = NamesOf(d.functions)
        /\ Len(Flat([k \in 1..Len(returned.items) |-> returned.items[k].functions]))
              = Len(Flat([k \in 1..Len(DeclarationMatches) |->
                             DeclarationMatches[k].functions]))

\* the import gathering of the comprehensive-query analyser: each captured
\* path once, in the order of its first capture
RECURSIVE GatherImports(_, _)
GatherImports(captured, imports) ==
    IF captured = << >> THEN imports
    ELSE GatherImports(Tail(captured),
                       IF Head(captured) # "" /\ Head(captured) \notin Range(imports)
                       THEN Append(imports, Head(captured)) ELSE imports)

\* C21: imports are de-duplicated in source order. The import list of every
\* record of a file holds each distinct import path of the file exactly once,
\* ordered by first occurrence, also when an import statement is repeated.
C21_ImportsDeduplicated ==
    ReturnedList =>
        \A k \in 1..Len(returned.items) :
            returned.items[k].imports = GatherImports(root_node.imports, << >>)

\* C22: visibility defaults to "public". Every record produced by
\* extraction (declaration, member, constructor parameter, function, function
\* parameter) whose source carries no visibility modifier has visibility
\* "public", and otherwise the text of its own modifier. A function
\* parameter cannot carry one.
C22_VisibilityDefaultsToPublic ==
    ReturnedList =>
        \A k \in 1..Len(returned.items) :
            LET d == RecordedNode(k)
                r == returned.items[k]
            IN /\ r.visibility = OwnVisibility(d)
               /\ \A v \in Range(r.members) :
                     \E m \in Range(MemberMatches(d)) :
                         m.name = v.name /\ v.visibility = OwnVisibility(m)
               /\ \A v \in Range(r.constructor_param_type) :
                     \E m \in Range(CtorParamMatches(d)) :
                         m.name = v.name /\ v.visibility = OwnVisibility(m)
               /\ \A fn \in Range(r.functions) :
                     /\ \E m \in Range(FunctionMatches(d)) :
                           m.name = fn.name /\ fn.visibility = OwnVisibility(m)
                     /\ \A prm \in Range(fn.parameters) : prm.visibility = "public"

\* C23: determinism and purity. Two calls of analyze_kotlin_file on the
\* same analyser with the same bytes return equal values (the same records,
\* fields and order), whatever was analysed in between: nothing of an
\* earlier call is visible in a later one.
C23_SameBytesSameRecords ==
    Returned =>
        \A e \in Range(earlier) :
            e.source_bytes = source_bytes => e.returned = returned

\* the third call repeats the bytes of the first, after another file, and
\* returns records
C23_Witness ==
    /\ Returned
    /\ Len(earlier) = 2
    /\ earlier[1].source_bytes = source_bytes
    /\ earlier[2].source_bytes # source_bytes
    /\ earlier[2].returned # returned
    /\ returned.type = "list"
    /\ returned.items # << >>

\* C24: the single-record analyser always returns a record. For every
\* input (empty bytes, text without a declaration, a value the parser
\* rejects, an extraction step that fails) analyze_kotlin_file returns a
\* KotlinAnalysis, never None, and never raises; for a file without
\* declarations the record has package_name "" and name "".
C24_SingleAlwaysReturnsRecord ==
    /\ fpc \in {"new", "ready", "single_start", "single_except", "single_return",
                "returned"}
    /\ Returned =>
          /\ returned.type = "KotlinAnalysis"
          /\ Len(returned.items) = 1
          /\ DOMAIN returned.items[1] = DOMAIN KotlinAnalysis
          /\ (root_node.children = << >> /\ root_node.package = Absent) =>
                /\ returned.items[1].package_name = ""
                /\ returned.items[1].name = ""

\* an extraction step failed after the header was read, and the record with
\* the header is still returned
C24_Witness ==
    /\ Returned
    /\ err = "AttributeError"
    /\ returned.type = "KotlinAnalysis"
    /\ returned.items[1].name # ""
    /\ returned.items[1].members = << >>

\* the children of the list that are parameter nodes
ParameterNodes == {k \in 1..Len(siblings) : siblings[k].type = "parameter"}

\* C25: default-value lookahead for function parameters. Reading a
\* parameter list raises no error, and for a parameter node at position i
\* among the children of its list the recorded default_value is the text of
\* child i+2 exactly when child i+1 exists and is the "=" token and child i+2
\* exists; otherwise, and for a matched parameter that is no child of the
\* list, it is None.
C25_DefaultValueLookahead ==
    /\ ppc # "raised"
    /\ ppc = "done" =>
          /\ Len(function_params) = Len(SomMatches(siblings))
          /\ \A j \in 1..Len(function_params) :
                LET at == SomMatches(siblings)[j]
                IN function_params[j].default_value =
                       IF /\ at \in ParameterNodes
                          /\ at + 1 <= Len(siblings)
                          /\ siblings[at + 1].type = "="
                          /\ at + 2 <= Len(siblings)
                       THEN siblings[at + 2].text
                       ELSE None

\* the declared types of the signature: members, constructor parameters,
\* function return types and function parameters
DeclaredTypes(analysis) ==
    {analysis.members[k].type : k \in 1..Len(analysis.members)}
    \cup {analysis.constructor_param_type[k].type :
            k \in 1..Len(analysis.constructor_param_type)}
    \cup {analysis.functions[k].return_type : k \in 1..Len(analysis.functions)}
    \cup UNION {{analysis.functions[k].parameters[j].type :
                    j \in 1..Len(analysis.functions[k].parameters)} :
                k \in 1..Len(analysis.functions)}

\* C26: signature types contribute to uses. After the extraction of a
\* declaration, the resolved name of every member, constructor parameter,
\* function return and function parameter type that is not empty, not
\* allowlisted and not the declaration itself is in uses, and the entries
\* the user-type matches put there are kept.
C26_SignatureTypesInUses ==
    xpc = "appended" =>
        /\ \A t \in DeclaredTypes(kotlin_analysis) :
              (/\ t # ""
               /\ t \notin KOTLIN_BUILTIN_TYPES
               /\ _resolve_fully_qualified(t, kotlin_analysis) # OwnFqn(kotlin_analysis))
              => _resolve_fully_qualified(t, kotlin_analysis) \in kotlin_analysis.uses
        /\ \A k \in 1..Len(user_types) :
              UserTypeUse(user_types[k], kotlin_analysis) \subseteq kotlin_analysis.uses

\* the type of a function parameter that no user-type match captured is in
\* uses, next to an entry a user-type match put there
C26_Witness ==
    /\ xpc = "appended"
    /\ user_types = <<"Foo">>
    /\ kotlin_analysis.name = "Foo"
    /\ kotlin_analysis.package_name = "app"
    /\ kotlin_analysis.imports = <<"lib.*">>
    /\ kotlin_analysis.functions =
          <<FunctionData("copy", "Foo", <<VariableData("other", "Order")>>)>>
    /\ kotlin_analysis.uses = {"lib.Foo", "lib.Order"}

----------------------------------------------------------------------------
(* Claims about the reconcile passes *)

\* the keys of the usage map whose list differs between two maps
ChangedKeys(before, after) ==
    {k \in DOMAIN before \cup DOMAIN after :
        DictGet(before, k, << >>) # DictGet(after, k, << >>)}

\* C27: reconciliation writes only usedBy. Every step taken while the run
\* reconciles leaves the graph keys and every field of every declaration
\* except usage as they were; a pass 2 step for declaration A changes the
\* usage map only at keys that are dependencies of A and keys of the graph,
\* and only by appending; a pass 3 step changes the usage of one declaration
\* only.
C27_ReconcileWritesOnlyUsedBy ==
    [][ (pc = "pass2" \/ pc = "pass3") =>
          /\ class_map' = class_map
          /\ Len(analysis_results') = Len(analysis_results)
          /\ \A r \in Reports :
                /\ [analysis_results'[r] EXCEPT !.usage = << >>]
                      = [analysis_results[r] EXCEPT !.usage = << >>]
                /\ (r # i \/ pc = "pass2") =>
                      analysis_results'[r].usage = analysis_results[r].usage
          /\ pc = "pass3" => usage_map' = usage_map
          /\ (pc = "pass2" /\ i \in Reports) =>
                \A k \in ChangedKeys(usage_map, usage_map') :
                    /\ k \in Uses(analysis_results[i])
                    /\ k \in GraphKeys
                    /\ Len(usage_map'[k]) > Len(DictGet(usage_map, k, << >>))
                    /\ SubSeq(usage_map'[k], 1, Len(DictGet(usage_map, k, << >>)))
                          = DictGet(usage_map, k, << >>)
      ]_vars

\* the run has finished and some declaration that has dependencies of its own
\* was given users
C27_Witness ==
    /\ pc = "done"
    /\ \E r \in Reports :
          /\ analysis_results[r].usage # << >>
          /\ analysis_results[r].dependencies # << >>
          /\ analysis_results[r].name \notin Uses(analysis_results[r])

\* C30: no declaration is its own user. When the run has finished, the usage
\* list of every declaration of the report does not contain the declaration's
\* own name.
C30_NoDeclarationIsItsOwnUser ==
    pc = "done" =>
        \A r \in Reports : analysis_results[r].name \notin UsedBy(analysis_results[r])

----------------------------------------------------------------------------
(* Claims about the type string *)

\* a single record was handed back and no step of the call failed
ReturnedRecord == Returned /\ returned.type = "KotlinAnalysis" /\ err = None

\* C28: the type string of a record is the class modifier, if any, followed
\* by the keyword of the declaration ("class", "interface", "data class",
\* "sealed class", "object"); for a record that has a declaration it is never
\* empty and never the text "None". Stated for every record of a returned
\* list against the node it was built from, and for the single record
\* against the one declaration of a file that holds one declaration.
C28_TypeStringOfDeclaration ==
    /\ ReturnedList =>
          \A k \in 1..Len(returned.items) :
              /\ returned.items[k].type = OwnType(RecordedNode(k))
              /\ returned.items[k].type \notin {"", Str(None)}
    /\ (ReturnedRecord /\ root_node.children # << >>) =>
          /\ returned.items[1].type \notin {"", Str(None)}
          /\ Len(DeclarationsOf(root_node.children)) = 1 =>
                returned.items[1].type = OwnType(root_node.children[1])

----------------------------------------------------------------------------
(* Claims about ClassMeta *)

\* C29: update_used_in keeps used_in duplicate-free and is idempotent.
\* Starting from a duplicate-free list, after any sequence of calls used_in
\* holds each user class at most once; a call with a name already present
\* leaves the list unchanged, a call with a new name makes it one longer with
\* the new name last and the earlier entries, in their order, before it; a
\* second call with the same name changes nothing.
C29_UsedInDuplicateFree ==
    /\ DuplicateFree(used_in)
    /\ \A user_class \in UserClasses :
          LET after == update_used_in(used_in, user_class)
          IN /\ DuplicateFree(after)
             /\ user_class \in Range(used_in) => after = used_in
             /\ user_class \notin Range(used_in) =>
                   /\ Len(after) = Len(used_in) + 1
                   /\ after[Len(after)] = user_class
                   /\ SubSeq(after, 1, Len(used_in)) = used_in
             /\ update_used_in(after, user_class) = after

\* calls have added every user class to a list that started shorter, so
\* further calls meet only names already present
C29_Witness ==
    /\ Len(used_in) > MaxInitialUsers
    /\ Range(used_in) = UserClasses
    /\ ppc = "idle"

====
